---------------------------- MODULE Spec2Model ----------------------------
(***************************************************************************)
(* Grid-world MDP of michael-mutin/reinforcement-learning.                 *)
(*                                                                         *)
(*   src/grid.py, src/policy.py                                            *)
(*       the Dynamic Programming variant: Environment.step(state, action)  *)
(*       is a pure transition model, Policy holds a policy table.          *)
(*   src/Reinforcement Learning/grid.py, policy.py                         *)
(*       the Reinforcement Learning variant: Environment owns the agent    *)
(*       position, the return and the done flag, Policy holds a Q-table.   *)
(*                                                                         *)
(* A Python call either returns a value or raises AssertionError; both     *)
(* outcomes are recorded in the variable last.  The interpreter is run     *)
(* with assertions enabled (the default, no -O).                           *)
(***************************************************************************)
EXTENDS Integers, Sequences, FiniteSets, TLC

VARIABLES
    env,            \* the Environment instance (its fields)
    action_policy,  \* Policy._action_policy of src/policy.py
    value_func,     \* the caller's value_func array (src/train_and_test_policy.py)
    q_function,     \* Policy._q_function of src/Reinforcement Learning/policy.py
    frame,          \* the locals and the program position of a running sarsa call
    rewards,        \* history: the rewards returned by env.step since the last reset
    updates,        \* history: the number of Q-table updates made so far
    last            \* the most recent call: its name, arguments and outcome

vars == <<env, action_policy, value_func, q_function, frame, rewards, updates, last>>

-----------------------------------------------------------------------------
(* Bounds of the model *)

MaxN == 2        \* grids are n x n for n in 2..MaxN
MaxHoles == 1    \* at most this many successful create_hole calls
MaxSteps == 2    \* at most this many env.step calls between two resets
MaxUpdates == 3  \* at most this many Q-table updates
MaxVal == 1      \* value functions passed in take values in -MaxVal..MaxVal
MaxEpisodes == 2 \* sarsa is called with episodes in 0..MaxEpisodes

-----------------------------------------------------------------------------
(* class Action, class GridTile *)

UP == 0
DOWN == 1
LEFT == 2
RIGHT == 3

HOLE == 0
FIELD == 1
GOAL == 2

\* [action for action in Action], in enumeration order
possible_actions == <<UP, DOWN, LEFT, RIGHT>>

ActionSet == {possible_actions[k] : k \in 1..Len(possible_actions)}

-----------------------------------------------------------------------------
(* Values *)

\* x in range(0, n)
InRange(x, n) == x >= 0 /\ x < n

Cells(n) == (0..(n - 1)) \X (0..(n - 1))

\* positions a caller may pass, one cell beyond the grid on every side included
Positions(n) == ((-1)..n) \X ((-1)..n)

InGrid(pos, n) == InRange(pos[1], n) /\ InRange(pos[2], n)

\* outcome of a call
Return(v) == [raised |-> FALSE, value |-> v]
Raise == [raised |-> TRUE, value |-> <<>>]

NoCall == [op |-> "init"]

-----------------------------------------------------------------------------
(* src/grid.py: Environment, the pure transition model *)

\* np.ones((n, n)) * FIELD, then grid[goal_pos] = GOAL
new_grid(n, goal_pos) ==
    [c \in Cells(n) |-> IF c = goal_pos THEN GOAL ELSE FIELD]

\* the candidate coordinate of lines 63-70
step_candidate(state, action) ==
    IF action = UP THEN <<state[1] - 1, state[2]>>
    ELSE IF action = DOWN THEN <<state[1] + 1, state[2]>>
    ELSE IF action = LEFT THEN <<state[1], state[2] - 1>>
    ELSE <<state[1], state[2] + 1>>

\* step without the absorbing-tile test of lines 57-58
step_through_terminal(n, grid, state, action) ==
    IF ~InGrid(state, n) THEN Raise
    ELSE LET new_state == step_candidate(state, action) IN
         IF (~InRange(new_state[1], n)) \/ (~InRange(new_state[2], n))
         THEN Return(<<state, -1, FALSE>>)
         ELSE IF grid[new_state] = HOLE THEN Return(<<new_state, -1, TRUE>>)
         ELSE IF grid[new_state] = GOAL THEN Return(<<new_state, 1, TRUE>>)
         ELSE Return(<<new_state, 0, FALSE>>)

\* step that forgets reward = -1 of line 74
step_free_bump(n, grid, state, action) ==
    IF ~InGrid(state, n) THEN Raise
    ELSE IF grid[state] = GOAL \/ grid[state] = HOLE
    THEN Return(<<state, 0, TRUE>>)
    ELSE LET new_state == step_candidate(state, action) IN
         IF (~InRange(new_state[1], n)) \/ (~InRange(new_state[2], n))
         THEN Return(<<state, 0, FALSE>>)
         ELSE IF grid[new_state] = HOLE THEN Return(<<new_state, -1, TRUE>>)
         ELSE IF grid[new_state] = GOAL THEN Return(<<new_state, 1, TRUE>>)
         ELSE Return(<<new_state, 0, FALSE>>)

\* Environment.step(state, action) -> (new_state, reward, done)
step(n, grid, state, action) ==
    IF ~InGrid(state, n) THEN Raise
    ELSE IF grid[state] = GOAL \/ grid[state] = HOLE
    THEN Return(<<state, 0, TRUE>>)
    ELSE LET new_state == step_candidate(state, action) IN
         IF (~InRange(new_state[1], n)) \/ (~InRange(new_state[2], n))
         THEN Return(<<state, -1, FALSE>>)
         ELSE IF grid[new_state] = HOLE THEN Return(<<new_state, -1, TRUE>>)
         ELSE IF grid[new_state] = GOAL THEN Return(<<new_state, 1, TRUE>>)
         ELSE Return(<<new_state, 0, FALSE>>)

\* create_hole without the FIELD assertion of line 97
create_hole_anywhere(n, grid, hole_pos) ==
    IF ~InGrid(hole_pos, n) THEN [grid |-> grid, result |-> Raise]
    ELSE [grid |-> [grid EXCEPT ![hole_pos] = HOLE], result |-> Return(<<>>)]

\* Environment.create_hole(hole_pos): the grid afterwards and the outcome
create_hole(n, grid, hole_pos) ==
    IF ~InGrid(hole_pos, n) THEN [grid |-> grid, result |-> Raise]
    ELSE IF grid[hole_pos] # FIELD THEN [grid |-> grid, result |-> Raise]
    ELSE [grid |-> [grid EXCEPT ![hole_pos] = HOLE], result |-> Return(<<>>)]

Holes(grid) == {c \in DOMAIN grid : grid[c] = HOLE}
Goals(grid) == {c \in DOMAIN grid : grid[c] = GOAL}

-----------------------------------------------------------------------------
(* Specification Spec: one Environment of src/grid.py and its callers *)

Init ==
    /\ \E n \in 2..MaxN : \E goal_pos \in Cells(n) :
          env = [n |-> n, grid |-> new_grid(n, goal_pos), goal_pos |-> goal_pos]
    /\ action_policy = <<>>
    /\ value_func = <<>>
    /\ q_function = <<>>
    /\ frame = <<>>
    /\ rewards = <<>>
    /\ updates = 0
    /\ last = NoCall

\* env.step(state, action) by any caller
Step ==
    /\ \E state \in Positions(env.n) : \E action \in ActionSet :
          last' = [op |-> "step", state |-> state, action |-> action,
                   result |-> step(env.n, env.grid, state, action)]
    /\ UNCHANGED <<env, action_policy, value_func, q_function, frame, rewards, updates>>

\* env.create_hole(hole_pos) by any caller
CreateHole ==
    /\ \E hole_pos \in Positions(env.n) :
          LET r == create_hole(env.n, env.grid, hole_pos) IN
          /\ r.result.raised \/ Cardinality(Holes(env.grid)) < MaxHoles
          /\ env' = [env EXCEPT !.grid = r.grid]
          /\ last' = [op |-> "create_hole", hole_pos |-> hole_pos,
                      before |-> env.grid, result |-> r.result]
    /\ UNCHANGED <<action_policy, value_func, q_function, frame, rewards, updates>>

Next == Step \/ CreateHole

Spec == Init /\ [][Next]_vars

-----------------------------------------------------------------------------
(* C1, C2, C7: the transition model and create_hole of src/grid.py *)

\* the last call was step(state, action) with state inside the grid
StepCalled == last.op = "step" /\ InGrid(last.state, env.n)

\* C1: for every grid, every state s whose tile is GOAL or HOLE and every
\* action a, step(s, a) returns exactly (s, 0, true).
TerminalTilesAbsorb ==
    (StepCalled /\ env.grid[last.state] \in {GOAL, HOLE})
        => last.result = Return(<<last.state, 0, TRUE>>)

\* a step was taken from a HOLE towards a neighbouring cell of the grid
TerminalTilesAbsorbWitness ==
    /\ StepCalled
    /\ env.grid[last.state] = HOLE
    /\ InGrid(step_candidate(last.state, last.action), env.n)
    /\ last.result = Return(<<last.state, 0, TRUE>>)

\* the one-cell move of an action, as the claim states it
MoveDelta(action) ==
    CASE action = UP -> <<-1, 0>>
      [] action = DOWN -> <<1, 0>>
      [] action = LEFT -> <<0, -1>>
      [] action = RIGHT -> <<0, 1>>

\* C2: for every in-grid non-terminal state s and every action a, step(s, a)
\* is (s, -1, false) when the one-cell move leaves the grid, (candidate, -1,
\* true) on a HOLE, (candidate, +1, true) on the GOAL, (candidate, 0, false)
\* otherwise.
NonTerminalStep ==
    (StepCalled /\ env.grid[last.state] \notin {GOAL, HOLE}) =>
        LET s == last.state
            d == MoveDelta(last.action)
            candidate == <<s[1] + d[1], s[2] + d[2]>>
        IN  /\ ~last.result.raised
            /\ candidate \notin Cells(env.n) =>
                  last.result.value = <<s, -1, FALSE>>
            /\ (candidate \in Cells(env.n) /\ env.grid[candidate] = HOLE) =>
                  last.result.value = <<candidate, -1, TRUE>>
            /\ (candidate \in Cells(env.n) /\ env.grid[candidate] = GOAL) =>
                  last.result.value = <<candidate, 1, TRUE>>
            /\ (candidate \in Cells(env.n) /\ env.grid[candidate] = FIELD) =>
                  last.result.value = <<candidate, 0, FALSE>>

\* a step from a FIELD bumped into the boundary of a grid that has a hole
NonTerminalStepWitness ==
    /\ StepCalled
    /\ env.grid[last.state] = FIELD
    /\ Holes(env.grid) # {}
    /\ last.result = Return(<<last.state, -1, FALSE>>)

\* C7: create_hole(pos) succeeds only when pos is inside the grid and its
\* tile is FIELD, and then exactly that tile becomes HOLE; otherwise it fails
\* and leaves the grid unchanged.  The grid always has exactly one GOAL, at
\* the construction-time goal position.
CreateHoleOnlyOnField ==
    /\ Goals(env.grid) = {env.goal_pos}
    /\ last.op = "create_hole" =>
          LET pos == last.hole_pos
              onField == InGrid(pos, env.n) /\ last.before[pos] = FIELD
          IN  /\ last.result.raised <=> ~onField
              /\ onField => env.grid = [c \in Cells(env.n) |->
                                IF c = pos THEN HOLE ELSE last.before[c]]
              /\ ~onField => env.grid = last.before

\* create_hole on the GOAL failed in a grid that already had a hole
CreateHoleOnlyOnFieldWitness ==
    /\ last.op = "create_hole"
    /\ last.hole_pos = env.goal_pos
    /\ last.result.raised
    /\ Holes(env.grid) # {}
    /\ env.grid = last.before

-----------------------------------------------------------------------------
(* src/Reinforcement Learning/grid.py: Environment, which owns the agent *)

\* Environment.__init__(n, agent_pos, goal_pos); start_pos and goal_pos keep
\* the constructor's arguments for the properties, the code never reads them
new_env(n, agent_pos, goal_pos) ==
    [n |-> n,
     grid |-> new_grid(n, goal_pos),
     initial_agent_pos |-> agent_pos,
     agent_pos |-> agent_pos,
     return |-> 0,
     done |-> FALSE,
     start_pos |-> agent_pos,
     goal_pos |-> goal_pos]

\* step without the assertion of line 45 (what python -O runs)
rl_step_unasserted(e, action) ==
    IF ~InGrid(e.agent_pos, e.n) THEN [env |-> e, result |-> Raise]
    ELSE IF e.grid[e.agent_pos] = GOAL \/ e.grid[e.agent_pos] = HOLE
    THEN [env |-> e, result |-> Return(<<e.agent_pos, 0, TRUE>>)]
    ELSE LET new_state == step_candidate(e.agent_pos, action)
             outside == (~InRange(new_state[1], e.n)) \/ (~InRange(new_state[2], e.n))
             pos == IF outside THEN e.agent_pos ELSE new_state
             reward == IF outside THEN -1
                       ELSE IF e.grid[pos] = HOLE THEN -1
                       ELSE IF e.grid[pos] = GOAL THEN 1
                       ELSE 0
             done == IF (~outside) /\ (e.grid[pos] = HOLE \/ e.grid[pos] = GOAL)
                     THEN TRUE ELSE e.done
         IN  [env |-> [e EXCEPT !.agent_pos = pos, !.return = @ + reward, !.done = done],
              result |-> Return(<<pos, reward, done>>)]

\* step that forgets reward = -1 of line 62
rl_step_free_bump(e, action) ==
    IF ~InGrid(e.agent_pos, e.n) THEN [env |-> e, result |-> Raise]
    ELSE IF e.done THEN [env |-> e, result |-> Raise]
    ELSE IF e.grid[e.agent_pos] = GOAL \/ e.grid[e.agent_pos] = HOLE
    THEN [env |-> e, result |-> Return(<<e.agent_pos, 0, TRUE>>)]
    ELSE LET new_state == step_candidate(e.agent_pos, action)
             outside == (~InRange(new_state[1], e.n)) \/ (~InRange(new_state[2], e.n))
             pos == IF outside THEN e.agent_pos ELSE new_state
             reward == IF outside THEN 0
                       ELSE IF e.grid[pos] = HOLE THEN -1
                       ELSE IF e.grid[pos] = GOAL THEN 1
                       ELSE 0
             done == IF (~outside) /\ (e.grid[pos] = HOLE \/ e.grid[pos] = GOAL)
                     THEN TRUE ELSE e.done
         IN  [env |-> [e EXCEPT !.agent_pos = pos, !.return = @ + reward, !.done = done],
              result |-> Return(<<pos, reward, done>>)]

\* Environment.step(action): the environment afterwards and the outcome.
\* The move is that of step_candidate: lines 52-59 repeat lines 63-70 of
\* src/grid.py with self._agent_pos for state.
rl_step(e, action) ==
    IF ~InGrid(e.agent_pos, e.n) THEN [env |-> e, result |-> Raise]
    ELSE IF e.done THEN [env |-> e, result |-> Raise]
    ELSE IF e.grid[e.agent_pos] = GOAL \/ e.grid[e.agent_pos] = HOLE
    THEN [env |-> e, result |-> Return(<<e.agent_pos, 0, TRUE>>)]
    ELSE LET new_state == step_candidate(e.agent_pos, action)
             outside == (~InRange(new_state[1], e.n)) \/ (~InRange(new_state[2], e.n))
             pos == IF outside THEN e.agent_pos ELSE new_state
             reward == IF outside THEN -1
                       ELSE IF e.grid[pos] = HOLE THEN -1
                       ELSE IF e.grid[pos] = GOAL THEN 1
                       ELSE 0
             done == IF (~outside) /\ (e.grid[pos] = HOLE \/ e.grid[pos] = GOAL)
                     THEN TRUE ELSE e.done
         IN  [env |-> [e EXCEPT !.agent_pos = pos, !.return = @ + reward, !.done = done],
              result |-> Return(<<pos, reward, done>>)]

\* reset that forgets self._return = 0 of line 83
rl_reset_keeps_return(e) ==
    [env |-> [e EXCEPT !.agent_pos = e.initial_agent_pos, !.done = FALSE],
     result |-> Return(e.initial_agent_pos)]

\* reset that forgets self._done = False of line 84
rl_reset_keeps_done(e) ==
    [env |-> [e EXCEPT !.agent_pos = e.initial_agent_pos, !.return = 0],
     result |-> Return(e.initial_agent_pos)]

\* Environment.reset()
rl_reset(e) ==
    [env |-> [e EXCEPT !.agent_pos = e.initial_agent_pos,
                       !.return = 0,
                       !.done = FALSE],
     result |-> Return(e.initial_agent_pos)]

\* Environment.create_hole(hole_pos)
rl_create_hole(e, hole_pos) ==
    IF ~InGrid(hole_pos, e.n) THEN [env |-> e, result |-> Raise]
    ELSE IF e.grid[hole_pos] # FIELD THEN [env |-> e, result |-> Raise]
    ELSE [env |-> [e EXCEPT !.grid[hole_pos] = HOLE], result |-> Return(<<>>)]

-----------------------------------------------------------------------------
(* Specification SpecRL: one stateful Environment and its callers *)

InitRL ==
    /\ \E n \in 2..MaxN : \E agent_pos \in Cells(n) : \E goal_pos \in Cells(n) :
          /\ agent_pos # goal_pos
          /\ env = new_env(n, agent_pos, goal_pos)
    /\ action_policy = <<>>
    /\ value_func = <<>>
    /\ q_function = <<>>
    /\ frame = <<>>
    /\ rewards = <<>>
    /\ updates = 0
    /\ last = NoCall

\* env.step(action) by any caller
RLStep ==
    /\ Len(rewards) < MaxSteps
    /\ \E action \in ActionSet :
          LET r == rl_step(env, action) IN
          /\ env' = r.env
          /\ rewards' = IF r.result.raised THEN rewards
                        ELSE Append(rewards, r.result.value[2])
          /\ last' = [op |-> "step", action |-> action, before |-> env,
                      result |-> r.result]
    /\ UNCHANGED <<action_policy, value_func, q_function, frame, updates>>

\* env.reset() by any caller
RLReset ==
    /\ LET r == rl_reset(env) IN
          /\ env' = r.env
          /\ last' = [op |-> "reset", before |-> env, result |-> r.result]
    /\ rewards' = <<>>
    /\ UNCHANGED <<action_policy, value_func, q_function, frame, updates>>

\* env.create_hole(hole_pos) by any caller, hole_pos inside the grid
RLCreateHole ==
    /\ \E hole_pos \in Cells(env.n) :
          LET r == rl_create_hole(env, hole_pos) IN
          /\ r.result.raised \/ Cardinality(Holes(env.grid)) < MaxHoles
          /\ env' = r.env
          /\ last' = [op |-> "create_hole", hole_pos |-> hole_pos,
                      before |-> env, result |-> r.result]
    /\ UNCHANGED <<action_policy, value_func, q_function, frame, rewards, updates>>

NextRL == RLStep \/ RLReset \/ RLCreateHole

SpecRL == InitRL /\ [][NextRL]_vars

-----------------------------------------------------------------------------
(* C3 - C6: the stateful Environment *)

RECURSIVE SumSeq(_)
SumSeq(q) == IF q = <<>> THEN 0 ELSE Head(q) + SumSeq(Tail(q))

\* the last call was env.step(action) on an episode that had already terminated
SteppedWhenDone == last.op = "step" /\ last.before.done

\* the last call was env.step(action) on a running episode
SteppedWhenRunning == last.op = "step" /\ ~last.before.done

\* C3 as stated: step(action) while the episode is TERMINATED returns
\* (current_position, 0, true) and changes neither the position, the
\* cumulative return nor the terminal flag.
StepWhenDoneReturnsTerminal ==
    SteppedWhenDone =>
        /\ last.result = Return(<<last.before.agent_pos, 0, TRUE>>)
        /\ env = last.before

\* C3 as amended: step(action) while the episode is TERMINATED fails the
\* assertion "Cannot make a step when done." and changes neither the
\* position, the cumulative return nor the terminal flag, for every action
\* and any number of repeated calls.
StepWhenDoneRaises ==
    SteppedWhenDone =>
        /\ last.result = Raise
        /\ env = last.before

\* a second step in a row was refused on a terminated episode
StepWhenDoneRaisesWitness ==
    /\ SteppedWhenDone
    /\ last.result.raised
    /\ env.done
    /\ env.grid[env.agent_pos] \in {GOAL, HOLE}
    /\ Len(rewards) >= 1

\* C4: reset() returns the construction-time agent position and leaves
\* position = construction-time position, return = 0, terminal flag = false;
\* a second reset() leaves the same state and returns the same value.
ResetRestoresStart ==
    last.op = "reset" =>
        /\ last.result = Return(env.start_pos)
        /\ env.agent_pos = env.start_pos
        /\ env.return = 0
        /\ env.done = FALSE
        /\ rl_reset(env).env = env
        /\ rl_reset(env).result = last.result

\* reset() was called on a terminated episode away from the start with a
\* non-zero return
ResetRestoresStartWitness ==
    /\ last.op = "reset"
    /\ last.before.done
    /\ last.before.return # 0
    /\ last.before.agent_pos # env.start_pos
    /\ env.agent_pos = env.start_pos

\* C5: on a non-terminated environment at position p, step(a) returns the
\* triple of the pure transition model step(p, a) on the same grid; then the
\* stored position is the returned next_state and the return has grown by
\* the returned reward, so the return is the sum of the rewards received
\* since the last reset.
StatefulStepRefinesPure ==
    /\ env.return = SumSeq(rewards)
    /\ SteppedWhenRunning =>
          /\ last.result =
                step(last.before.n, last.before.grid, last.before.agent_pos, last.action)
          /\ ~last.result.raised
          /\ env.agent_pos = last.result.value[1]
          /\ env.return = last.before.return + last.result.value[2]

\* a running episode bumped into the boundary after an earlier move
StatefulStepRefinesPureWitness ==
    /\ SteppedWhenRunning
    /\ Len(rewards) >= 2
    /\ last.result.value = <<last.before.agent_pos, -1, FALSE>>
    /\ last.before.agent_pos # env.start_pos

\* C6: the episode starts RUNNING at the start position; the terminal flag
\* is true after exactly the steps whose result places the agent on a GOAL or
\* HOLE tile (so a step that returns terminal=true leaves get_done() true),
\* and once true it stays true until reset().
EpisodeTwoStateMachine ==
    /\ last.op = "init" => (~env.done /\ env.agent_pos = env.start_pos)
    /\ (last.op = "step" /\ ~last.result.raised) =>
          /\ env.done <=> env.grid[last.result.value[1]] \in {GOAL, HOLE}
          /\ last.result.value[3] => env.done
    /\ (last.op \in {"step", "create_hole"} /\ last.before.done) => env.done

-----------------------------------------------------------------------------
(* src/Reinforcement Learning/policy.py: Policy, the temporal-difference  *)
(* learner.  Q-values are exact rationals, held as integer multiples of    *)
(* 1/QScale; epsilon and np.random.rand() are held in tenths.              *)

\* the defaults learning_rate=0.3, discount=0.9 of sarsa, as <<num, den>>
learning_rate == <<3, 10>>
discount == <<9, 10>>

\* one Q-table update divides by 100 at most once: after k updates every
\* entry is a multiple of QScale / 100^k
QScale == 100 ^ MaxUpdates

\* the epsilon arguments tried: 0, the default 0.3 of sarsa, and 1 (tenths)
Epsilons == {0, 3, 10}

\* values np.random.rand() may return, in [0, 1) (tenths)
RandDraws == {0, 5}

\* np.zeros((n, n, len(possible_actions)))
new_q_function(n) == [c \in Cells(n) |-> [k \in 1..Len(possible_actions) |-> 0]]

\* index of an action on the last axis of the Q-table (action.value, from 1)
ActionIndex(action) == action + 1

\* the scan of np.argmax over row[k..], best being the index found so far
RECURSIVE argmax_scan(_, _, _)
argmax_scan(row, k, best) ==
    IF k > Len(row) THEN best
    ELSE argmax_scan(row, k + 1, IF row[k] > row[best] THEN k ELSE best)

\* np.argmax(row): the index of the first occurrence of the maximum
argmax(row) == argmax_scan(row, 2, 1) - 1

\* epsilon_greedy that explores when np.random.rand() <= epsilon
epsilon_greedy_inclusive(q, epsilon, state, rand, choice) ==
    IF rand <= epsilon THEN choice ELSE argmax(q[state])

\* Policy.epsilon_greedy(epsilon, state); rand is the value np.random.rand()
\* returned and choice the action np.random.choice returned
epsilon_greedy(q, epsilon, state, rand, choice) ==
    IF rand < epsilon THEN choice ELSE argmax(q[state])

\* the assignment of line 55: the new value of Q[state, action], given the
\* old one, the reward and the bootstrap value Q[next_state, next_action]
td_update(old, reward, bootstrap) ==
    LET target == reward * QScale + discount[1] * (bootstrap \div discount[2])
    IN  old + learning_rate[1] * ((target - old) \div learning_rate[2])

\* the locals of sarsa before its first statement
new_frame(episodes, epsilon) ==
    [pc |-> "for", episodes |-> episodes, epsilon |-> epsilon, i |-> 0,
     state |-> <<>>, next_action |-> <<>>, reached_terminal_state |-> FALSE,
     iteration |-> 0]

-----------------------------------------------------------------------------
(* Specification SpecTD: a stateful Environment, a Policy and sarsa *)

InitTD ==
    /\ \E n \in 2..MaxN : \E agent_pos \in Cells(n) : \E goal_pos \in Cells(n) :
          /\ agent_pos # goal_pos
          /\ env = new_env(n, agent_pos, goal_pos)
          /\ q_function = new_q_function(n)
    /\ action_policy = <<>>
    /\ value_func = <<>>
    /\ frame = [pc |-> "idle"]
    /\ rewards = <<>>
    /\ updates = 0
    /\ last = NoCall

\* env.create_hole(hole_pos), before the first training call
TDCreateHole ==
    /\ frame.pc = "idle"
    /\ \E hole_pos \in Cells(env.n) :
          LET r == rl_create_hole(env, hole_pos) IN
          /\ r.result.raised \/ Cardinality(Holes(env.grid)) < MaxHoles
          /\ env' = r.env
          /\ last' = [op |-> "create_hole", hole_pos |-> hole_pos,
                      before |-> env, result |-> r.result]
    /\ UNCHANGED <<action_policy, value_func, q_function, frame, rewards, updates>>

\* policy.sarsa(env, episodes, epsilon=epsilon) is called, epsilon in epsilons
sarsa_call(epsilons) ==
    /\ frame.pc = "idle"
    /\ \E episodes \in 0..MaxEpisodes : \E epsilon \in epsilons :
          /\ frame' = new_frame(episodes, epsilon)
          /\ last' = [op |-> "sarsa", episodes |-> episodes, epsilon |-> epsilon]
    /\ UNCHANGED <<env, action_policy, value_func, q_function, rewards, updates>>

SarsaCall == sarsa_call(Epsilons)

\* policy.sarsa(env, episodes, epsilon=0) is called
SarsaCallGreedy == sarsa_call({0})

\* for i in range(episodes): state = env.reset(); reached_terminal_state = False
SarsaEpisode ==
    /\ frame.pc = "for"
    /\ frame.i < frame.episodes
    /\ LET r == rl_reset(env) IN
          /\ env' = r.env
          /\ frame' = [frame EXCEPT !.pc = "while",
                                    !.state = r.result.value,
                                    !.reached_terminal_state = FALSE,
                                    !.iteration = 0]
          /\ last' = [op |-> "reset", before |-> env, result |-> r.result]
    /\ UNCHANGED <<action_policy, value_func, q_function, rewards, updates>>

\* lines 49-58 with the environment e, the Q-table q and the locals f, the
\* two epsilon_greedy calls drawing (rand1, choice1) and (rand2, choice2):
\* what the pass leaves behind
sarsa_body(e, q, f, rand1, choice1, rand2, choice2) ==
    LET state == f.state
        action == epsilon_greedy(q, f.epsilon, state, rand1, choice1)
        r == rl_step(e, action)
    IN  IF r.result.raised
        THEN [raised |-> TRUE, env |-> r.env, q_function |-> q,
              state |-> state, action |-> action]
        ELSE LET next_state == r.result.value[1]
                 reward == r.result.value[2]
                 done == r.result.value[3]
                 next_action == epsilon_greedy(q, f.epsilon, next_state, rand2, choice2)
                 bootstrap == q[next_state][ActionIndex(next_action)]
                 old == q[state][ActionIndex(action)]
             IN  [raised |-> FALSE, env |-> r.env,
                  q_function |-> [q EXCEPT ![state][ActionIndex(action)] =
                                      td_update(old, reward, bootstrap)],
                  state |-> state, action |-> action,
                  next_state |-> next_state, next_action |-> next_action,
                  reward |-> reward, done |-> done]

\* one pass through the body of while not reached_terminal_state
SarsaIteration ==
    /\ frame.pc = "while"
    /\ ~frame.reached_terminal_state
    /\ updates < MaxUpdates
    /\ \E rand1 \in RandDraws : \E choice1 \in ActionSet :
       \E rand2 \in RandDraws : \E choice2 \in ActionSet :
       \E b \in {sarsa_body(env, q_function, frame, rand1, choice1, rand2, choice2)} :
          /\ env' = b.env
          /\ q_function' = b.q_function
          /\ IF b.raised
             THEN /\ frame' = [frame EXCEPT !.pc = "raised"]
                  /\ updates' = updates
                  /\ last' = [op |-> "sarsa_iteration", raised |-> TRUE,
                              state |-> b.state, action |-> b.action]
             ELSE /\ frame' = [frame EXCEPT !.state = b.next_state,
                                            !.next_action = <<b.next_action>>,
                                            !.reached_terminal_state = b.done,
                                            !.iteration = @ + 1]
                  /\ updates' = updates + 1
                  /\ last' = [op |-> "sarsa_iteration", raised |-> FALSE,
                              iteration |-> frame.iteration + 1,
                              previous_next_action |-> frame.next_action,
                              state |-> b.state, action |-> b.action,
                              next_state |-> b.next_state,
                              next_action |-> b.next_action,
                              reward |-> b.reward, done |-> b.done,
                              q_function |-> q_function,
                              stepped_when_done |-> env.done]
    /\ UNCHANGED <<action_policy, value_func, rewards>>

\* the loop has ended: env.reset() of line 59, then the next i
SarsaEpisodeEnd ==
    /\ frame.pc = "while"
    /\ frame.reached_terminal_state
    /\ LET r == rl_reset(env) IN
          /\ env' = r.env
          /\ frame' = [frame EXCEPT !.pc = "for", !.i = @ + 1]
          /\ last' = [op |-> "reset", before |-> env, result |-> r.result]
    /\ UNCHANGED <<action_policy, value_func, q_function, rewards, updates>>

\* range(episodes) is exhausted: sarsa returns
SarsaReturn ==
    /\ frame.pc = "for"
    /\ frame.i >= frame.episodes
    /\ frame' = [frame EXCEPT !.pc = "returned"]
    /\ last' = [op |-> "sarsa_return"]
    /\ UNCHANGED <<env, action_policy, value_func, q_function, rewards, updates>>

NextTD ==
    \/ TDCreateHole
    \/ SarsaCall
    \/ SarsaEpisode
    \/ SarsaIteration
    \/ SarsaEpisodeEnd
    \/ SarsaReturn

SpecTD == InitTD /\ [][NextTD]_vars

\* Specification SpecGreedy: as SpecTD, sarsa being called with epsilon = 0
NextGreedy ==
    \/ TDCreateHole
    \/ SarsaCallGreedy
    \/ SarsaEpisode
    \/ SarsaIteration
    \/ SarsaEpisodeEnd
    \/ SarsaReturn

SpecGreedy == InitTD /\ [][NextGreedy]_vars

-----------------------------------------------------------------------------
(* Specification SpecTrain: as SpecTD, the training call being sarsa or   *)
(* q_learning                                                              *)

\* the epsilon arguments of q_learning tried: 0, 0.3 and its default 0.7
\* (tenths)
QEpsilons == {0, 3, 7}

\* the locals of q_learning before its first statement
q_learning_frame(episodes, epsilon) ==
    [pc |-> "q_for", episodes |-> episodes, epsilon |-> epsilon, i |-> 0,
     state |-> <<>>, reached_terminal_state |-> FALSE, iteration |-> 0]

\* the scan of max over row[k..], best being the largest value so far
RECURSIVE max_scan(_, _, _)
max_scan(row, k, best) ==
    IF k > Len(row) THEN best
    ELSE max_scan(row, k + 1, IF row[k] > best THEN row[k] ELSE best)

\* min in the place of max
min_q(q, state) ==
    CHOOSE v \in {q[state][k] : k \in 1..Len(possible_actions)} :
       \A k \in 1..Len(possible_actions) : v <= q[state][k]

\* max([Q[state + (possible_action.value,)] for possible_action in
\* possible_actions]) of line 72
max_q(q, state) ==
    LET row == [k \in 1..Len(possible_actions) |->
                   q[state][ActionIndex(possible_actions[k])]]
    IN  max_scan(row, 2, row[1])

\* lines 68-75 with the environment e, the Q-table q and the locals f, the
\* epsilon_greedy call drawing (rand, choice): what the pass leaves behind
q_learning_body(e, q, f, rand, choice) ==
    LET state == f.state
        action == epsilon_greedy(q, f.epsilon, state, rand, choice)
        r == rl_step(e, action)
    IN  IF r.result.raised
        THEN [raised |-> TRUE, env |-> r.env, q_function |-> q,
              state |-> state, action |-> action]
        ELSE LET next_state == r.result.value[1]
                 reward == r.result.value[2]
                 done == r.result.value[3]
                 old == q[state][ActionIndex(action)]
             IN  [raised |-> FALSE, env |-> r.env,
                  q_function |-> [q EXCEPT ![state][ActionIndex(action)] =
                                      td_update(old, reward, max_q(q, next_state))],
                  state |-> state, action |-> action,
                  next_state |-> next_state, reward |-> reward, done |-> done]

\* policy.q_learning(env, episodes, epsilon=epsilon) is called
QLearningCall ==
    /\ frame.pc = "idle"
    /\ \E episodes \in 0..MaxEpisodes : \E epsilon \in QEpsilons :
          /\ frame' = q_learning_frame(episodes, epsilon)
          /\ last' = [op |-> "q_learning", episodes |-> episodes, epsilon |-> epsilon]
    /\ UNCHANGED <<env, action_policy, value_func, q_function, rewards, updates>>

\* for i in range(episodes): state = env.reset(); reached_terminal_state = False
QLearningEpisode ==
    /\ frame.pc = "q_for"
    /\ frame.i < frame.episodes
    /\ LET r == rl_reset(env) IN
          /\ env' = r.env
          /\ frame' = [frame EXCEPT !.pc = "q_while",
                                    !.state = r.result.value,
                                    !.reached_terminal_state = FALSE,
                                    !.iteration = 0]
          /\ last' = [op |-> "reset", before |-> env, result |-> r.result]
    /\ UNCHANGED <<action_policy, value_func, q_function, rewards, updates>>

\* one pass through the body of while not reached_terminal_state
QLearningIteration ==
    /\ frame.pc = "q_while"
    /\ ~frame.reached_terminal_state
    /\ updates < MaxUpdates
    /\ \E rand \in RandDraws : \E choice \in ActionSet :
       \E b \in {q_learning_body(env, q_function, frame, rand, choice)} :
          /\ env' = b.env
          /\ q_function' = b.q_function
          /\ IF b.raised
             THEN /\ frame' = [frame EXCEPT !.pc = "raised"]
                  /\ updates' = updates
                  /\ last' = [op |-> "q_learning_iteration", raised |-> TRUE,
                              state |-> b.state, action |-> b.action]
             ELSE /\ frame' = [frame EXCEPT !.state = b.next_state,
                                            !.reached_terminal_state = b.done,
                                            !.iteration = @ + 1]
                  /\ updates' = updates + 1
                  /\ last' = [op |-> "q_learning_iteration", raised |-> FALSE,
                              iteration |-> frame.iteration + 1,
                              rand |-> rand, choice |-> choice,
                              state |-> b.state, action |-> b.action,
                              next_state |-> b.next_state,
                              reward |-> b.reward, done |-> b.done,
                              before |-> env,
                              q_function |-> q_function,
                              stepped_when_done |-> env.done]
    /\ UNCHANGED <<action_policy, value_func, rewards>>

\* the loop has ended: env.reset() of line 76, then the next i
QLearningEpisodeEnd ==
    /\ frame.pc = "q_while"
    /\ frame.reached_terminal_state
    /\ LET r == rl_reset(env) IN
          /\ env' = r.env
          /\ frame' = [frame EXCEPT !.pc = "q_for", !.i = @ + 1]
          /\ last' = [op |-> "reset", before |-> env, result |-> r.result]
    /\ UNCHANGED <<action_policy, value_func, q_function, rewards, updates>>

\* range(episodes) is exhausted: q_learning returns
QLearningReturn ==
    /\ frame.pc = "q_for"
    /\ frame.i >= frame.episodes
    /\ frame' = [frame EXCEPT !.pc = "returned"]
    /\ last' = [op |-> "q_learning_return"]
    /\ UNCHANGED <<env, action_policy, value_func, q_function, rewards, updates>>

NextTrain ==
    \/ TDCreateHole
    \/ SarsaCall
    \/ SarsaEpisode
    \/ SarsaIteration
    \/ SarsaEpisodeEnd
    \/ SarsaReturn
    \/ QLearningCall
    \/ QLearningEpisode
    \/ QLearningIteration
    \/ QLearningEpisodeEnd
    \/ QLearningReturn

SpecTrain == InitTD /\ [][NextTrain]_vars

-----------------------------------------------------------------------------
(* C8, C9: sarsa and epsilon_greedy *)

\* a pass through the loop body of sarsa has just completed
SarsaIterated == last.op = "sarsa_iteration" /\ ~last.raised

\* C8: within an episode of sarsa, the action next_action whose Q-value
\* Q[next_state, next_action] was the bootstrap target of an update is the
\* action passed to env.step in the following iteration.
SarsaTakesBootstrapAction ==
    (SarsaIterated /\ last.iteration > 1) =>
        last.previous_next_action = <<last.action>>

\* action is a first maximizer of row: no action has a larger value and no
\* earlier action (in the order UP, DOWN, LEFT, RIGHT) has an equal one
IsFirstMaximizer(row, action) ==
    /\ \A other \in ActionSet : row[ActionIndex(other)] <= row[ActionIndex(action)]
    /\ \A other \in ActionSet :
          other < action => row[ActionIndex(other)] < row[ActionIndex(action)]

\* C9: with epsilon = 0, epsilon_greedy(0, state) never takes the random
\* branch: whatever np.random returns it is the first action, in the order
\* UP, DOWN, LEFT, RIGHT, that maximizes Q[state, a].
GreedyWhenEpsilonZero ==
    (SarsaIterated /\ frame.epsilon = 0) =>
        /\ IsFirstMaximizer(last.q_function[last.state], last.action)
        /\ IsFirstMaximizer(last.q_function[last.next_state], last.next_action)

\* with epsilon = 0 an action other than UP was selected on a row whose
\* maximum is shared by several actions
GreedyWhenEpsilonZeroWitness ==
    /\ SarsaIterated
    /\ frame.epsilon = 0
    /\ last.action # UP
    /\ \E other \in ActionSet :
          /\ other # last.action
          /\ last.q_function[last.state][ActionIndex(other)]
                = last.q_function[last.state][ActionIndex(last.action)]
    /\ \E a \in ActionSet : last.q_function[last.next_state][ActionIndex(a)] # 0

-----------------------------------------------------------------------------
(* C14, C15: q_learning, and the episodes of both learners *)

\* a pass through the loop body of q_learning has just completed
QLearningIterated == last.op = "q_learning_iteration" /\ ~last.raised

\* m is max over a' of Q[state, a'] in the table q
IsMaxOver(q, state, m) ==
    /\ \E other \in ActionSet : q[state][ActionIndex(other)] = m
    /\ \A other \in ActionSet : q[state][ActionIndex(other)] <= m

\* new - old = learning_rate * (reward + discount * m - old), Q-values in
\* units of 1/QScale, both sides times the two denominators
IsUpdate(old, new, reward, m) ==
    (learning_rate[2] * discount[2]) * (new - old)
       = learning_rate[1] * (discount[2] * reward * QScale + discount[1] * m
                                - discount[2] * old)

\* C14: one pass of q_learning's loop takes (next_state, reward, done) from
\* env.step(action) and adds learning_rate * (reward + discount * max over
\* a' of Q[next_state, a'] - Q[state, action]) to Q[state, action]; no other
\* entry changes; the action is chosen by epsilon_greedy on the loop's
\* current state, in every pass afresh, whichever action gave the maximum
QLearningUpdate ==
    QLearningIterated =>
        /\ rl_step(last.before, last.action).result
              = Return(<<last.next_state, last.reward, last.done>>)
        /\ \E m \in {last.q_function[last.next_state][k] :
                        k \in 1..Len(possible_actions)} :
              /\ IsMaxOver(last.q_function, last.next_state, m)
              /\ IsUpdate(last.q_function[last.state][ActionIndex(last.action)],
                          q_function[last.state][ActionIndex(last.action)],
                          last.reward, m)
        /\ \A cell \in Cells(env.n) : \A other \in ActionSet :
              <<cell, other>> # <<last.state, last.action>> =>
                 q_function[cell][ActionIndex(other)]
                    = last.q_function[cell][ActionIndex(other)]
        /\ frame.state = last.next_state
        /\ IF last.rand < frame.epsilon
           THEN last.action = last.choice
           ELSE IsFirstMaximizer(last.q_function[last.state], last.action)

\* a later pass of an episode whose action was chosen at random and is not
\* a maximizer of Q[state, .], the maximum of Q[next_state, .] being
\* non-zero
QLearningUpdateWitness ==
    /\ QLearningIterated
    /\ last.iteration > 1
    /\ last.rand < frame.epsilon
    /\ ~IsMaxOver(last.q_function, last.state,
                  last.q_function[last.state][ActionIndex(last.action)])
    /\ ~IsMaxOver(last.q_function, last.next_state, 0)
    /\ q_function # last.q_function

\* a pass through the loop body of sarsa or q_learning was begun
LearnerStepped == last.op \in {"sarsa_iteration", "q_learning_iteration"}

\* C15: during sarsa and q_learning env.step is never called while the
\* environment's terminal flag is set, so the assertion "Cannot make a step
\* when done" never fires, for every grid, start position and exploration
\* choice: an episode begins with env.reset() and its loop stops at the
\* first done
LearnersStepRunningEpisodes ==
    /\ frame.pc # "raised"
    /\ LearnerStepped =>
          /\ ~last.raised
          /\ ~last.stepped_when_done

\* q_learning stepped in its second episode, the first one having ended on
\* a terminal tile, and this step ended the episode on one too
LearnersStepRunningEpisodesWitness ==
    /\ last.op = "q_learning_iteration"
    /\ ~last.raised
    /\ frame.i = 1
    /\ updates >= 2
    /\ last.done
    /\ env.done

-----------------------------------------------------------------------------
(* src/policy.py: Policy, the tabular value solver.  The entries of a     *)
(* value function and the discount are real numbers, held as exact         *)
(* fractions <<num, den>> in lowest terms with den > 0; the rounding of    *)
(* float64 is not modelled.                                                *)

\* Every operation evaluates each operand once, binding it to x or y.

RECURSIVE gcd(_, _)
gcd(a, b) == IF b = 0 THEN a ELSE CHOOSE g \in {gcd(b, r) : r \in {a % b}} : TRUE

\* the least common denominator of the fractions x and y
common_den(x, y) == (x[2] \div gcd(x[2], y[2])) * y[2]

\* the fraction num / den, den > 0, in lowest terms
fraction(num, den) ==
    CHOOSE f \in {LET g == gcd(IF x < 0 THEN -x ELSE x, y)
                  IN  <<x \div g, y \div g>> : x \in {num}, y \in {den}} : TRUE

\* a + b
add(a, b) ==
    CHOOSE s \in {fraction(x[1] * (common_den(x, y) \div x[2])
                              + y[1] * (common_den(x, y) \div y[2]),
                           common_den(x, y)) : x \in {a}, y \in {b}} : TRUE

\* a * b
mul(a, b) ==
    CHOOSE p \in {fraction(x[1] * y[1], x[2] * y[2]) : x \in {a}, y \in {b}} : TRUE

\* a < b
less(a, b) ==
    CHOOSE c \in {x[1] * (common_den(x, y) \div x[2])
                     < y[1] * (common_den(x, y) \div y[2]) : x \in {a}, y \in {b}} : TRUE

\* abs(a - b)
abs_diff(a, b) ==
    CHOOSE d \in {IF less(x, y) THEN add(y, <<-x[1], x[2]>>)
                                ELSE add(x, <<-y[1], y[2]>>) : x \in {a}, y \in {b}} : TRUE

\* max(a, b), which keeps a unless b is larger
max2(a, b) == CHOOSE m \in {IF less(x, y) THEN y ELSE x : x \in {a}, y \in {b}} : TRUE

\* the integer v as a real
real(v) == <<v, 1>>

\* the discount arguments tried: 0, the default 0.9, 1, and 1.1, which the
\* assertion of line 81 rejects
Discounts == {<<0, 1>>, <<9, 10>>, <<1, 1>>, <<11, 10>>}

\* the value functions the caller may hold, all of shape (n, n)
ValueFuncs(n) == [Cells(n) -> {real(v) : v \in (-MaxVal)..MaxVal}]

\* np.random.choice([action.value ...], size=(n, n)) may return any table;
\* the tables tried are those with the same action in every cell
PolicyTables(n) == {[c \in Cells(n) |-> action] : action \in ActionSet}

\* np.ndindex((n, n)): the k-th cell in row-major order
ndindex(n, k) == <<(k - 1) \div n, (k - 1) % n>>

\* reward + value_func[next_state], the discount left out
lookahead_undiscounted(n, grid, values, disc, cell, action) ==
    CHOOSE v \in {add(real(r[2]), values[r[1]]) :
                    r \in {step(n, grid, cell, action).value}} : TRUE

\* next_state, reward, _ = env.step((i,j), action), and then
\* reward + discount*value_func[next_state]
lookahead(n, grid, values, disc, cell, action) ==
    CHOOSE v \in {add(real(r[2]), mul(disc, values[r[1]])) :
                    r \in {step(n, grid, cell, action).value}} : TRUE

\* the dict action_value of lines 86-89 for state (i, j), in insertion order
action_value(n, grid, values, disc, cell) ==
    [k \in 1..Len(possible_actions) |->
        lookahead(n, grid, values, disc, cell, possible_actions[k])]

\* a max that keeps the last of several maximal keys
RECURSIVE max_key_last_scan(_, _, _)
max_key_last_scan(values, k, best) ==
    IF k > Len(values) THEN best
    ELSE max_key_last_scan(values, k + 1,
                           IF ~less(values[k], values[best]) THEN k ELSE best)

max_key_last(values) ==
    possible_actions[CHOOSE k \in {max_key_last_scan(v, 2, 1) : v \in {values}} : TRUE]

\* the scan of max(action_value, key=action_value.get): a later key replaces
\* the best one only when its value is strictly larger
RECURSIVE max_key_scan(_, _, _)
max_key_scan(values, k, best) ==
    IF k > Len(values) THEN best
    ELSE max_key_scan(values, k + 1, IF less(values[best], values[k]) THEN k ELSE best)

\* max(action_value, key=action_value.get)
max_key(values) ==
    possible_actions[CHOOSE k \in {max_key_scan(v, 2, 1) : v \in {values}} : TRUE]

\* lines 85-93 for one cell: the table and policy_stable afterwards
improve_cell(policy, policy_stable, cell, max_action) ==
    [action_policy |-> [policy EXCEPT ![cell] = max_action],
     policy_stable |-> IF policy[cell] # max_action THEN FALSE ELSE policy_stable]

\* the loop of lines 84-93 from the k-th cell on
RECURSIVE improvement_sweep(_, _, _, _, _, _)
improvement_sweep(n, grid, values, disc, acc, k) ==
    IF k > n * n THEN acc
    ELSE CHOOSE swept \in
            {improvement_sweep(n, grid, values, disc,
                 improve_cell(a.action_policy, a.policy_stable, ndindex(n, k), max_action),
                 k + 1) :
                a \in {acc},
                max_action \in {max_key(action_value(n, grid, values, disc, ndindex(n, k)))}} :
            TRUE

\* Policy.policy_improvement(value_func, env, discount): the policy table
\* afterwards and the outcome
policy_improvement(n, grid, policy, values, disc) ==
    IF DOMAIN values # Cells(n) THEN [action_policy |-> policy, result |-> Raise]
    ELSE IF ~(0 <= disc[1] /\ disc[1] <= disc[2])
    THEN [action_policy |-> policy, result |-> Raise]
    ELSE LET swept == improvement_sweep(n, grid, values, disc,
                          [action_policy |-> policy, policy_stable |-> TRUE], 1)
         IN  [action_policy |-> swept.action_policy,
              result |-> Return(swept.policy_stable)]

-----------------------------------------------------------------------------
(* Specification SpecDP: an Environment of src/grid.py, a Policy and the   *)
(* value function its caller holds                                         *)

InitDP ==
    /\ \E n \in 2..MaxN : \E goal_pos \in Cells(n) :
          /\ env = [n |-> n, grid |-> new_grid(n, goal_pos), goal_pos |-> goal_pos]
          /\ action_policy \in PolicyTables(n)
          /\ value_func \in ValueFuncs(n)
    /\ q_function = <<>>
    /\ frame = <<>>
    /\ rewards = <<>>
    /\ updates = 0
    /\ last = NoCall

\* env.create_hole(hole_pos), as the script does before it solves
DPCreateHole ==
    /\ last.op \in {"init", "create_hole"}
    /\ \E hole_pos \in Cells(env.n) :
          LET r == create_hole(env.n, env.grid, hole_pos) IN
          /\ r.result.raised \/ Cardinality(Holes(env.grid)) < MaxHoles
          /\ env' = [env EXCEPT !.grid = r.grid]
          /\ last' = [op |-> "create_hole", hole_pos |-> hole_pos,
                      before |-> env.grid, result |-> r.result]
    /\ UNCHANGED <<action_policy, value_func, q_function, frame, rewards, updates>>

\* policy.policy_improvement(value_func, env, discount) by any caller
PolicyImprovement ==
    /\ \E disc \in Discounts :
       \E r \in {policy_improvement(env.n, env.grid, action_policy, value_func, disc)} :
          /\ action_policy' = r.action_policy
          /\ last' = [op |-> "policy_improvement", discount |-> disc,
                      result |-> r.result]
    /\ UNCHANGED <<env, value_func, q_function, frame, rewards, updates>>

NextDP == DPCreateHole \/ PolicyImprovement

SpecDP == InitDP /\ [][NextDP]_vars

-----------------------------------------------------------------------------
(* C10: policy_improvement *)

\* reward + discount * value_func[next_state] for action in cell, times the
\* denominators of the discount and of the value
Lookahead(cell, action, values, disc) ==
    LET r == step(env.n, env.grid, cell, action).value
    IN  [num |-> r[2] * disc[2] * values[r[1]][2] + disc[1] * values[r[1]][1],
         den |-> disc[2] * values[r[1]][2]]

\* the lookahead of action a in cell is below that of action b
Below(cell, a, b, values, disc) ==
    Lookahead(cell, a, values, disc).num * Lookahead(cell, b, values, disc).den
       < Lookahead(cell, b, values, disc).num * Lookahead(cell, a, values, disc).den

\* action maximizes the lookahead in cell and is the first to do so
FirstGreedy(cell, action, values, disc) ==
    /\ \A other \in ActionSet : ~Below(cell, action, other, values, disc)
    /\ \A other \in ActionSet : other < action => Below(cell, other, action, values, disc)

\* C10: policy_improvement assigns to every state the first action, in the
\* order UP, DOWN, LEFT, RIGHT, that maximizes reward +
\* discount*value_func[next_state], and returns true exactly when no state's
\* assigned action differs from the one it had before the call.
PolicyImprovementIsGreedy ==
    [][(last'.op = "policy_improvement" /\ ~last'.result.raised) =>
          /\ \A cell \in Cells(env.n) :
                FirstGreedy(cell, action_policy'[cell], value_func, last'.discount)
          /\ last'.result.value <=> (action_policy' = action_policy)]_vars

\* an improvement pass changed the table and broke a tie in favour of an
\* action other than UP, ahead of a later action of equal value
PolicyImprovementIsGreedyWitness ==
    /\ last.op = "policy_improvement"
    /\ last.result = Return(FALSE)
    /\ Holes(env.grid) # {}
    /\ \E cell \in Cells(env.n) : \E other \in ActionSet :
          /\ action_policy[cell] # UP
          /\ other > action_policy[cell]
          /\ ~Below(cell, other, action_policy[cell], value_func, last.discount)
          /\ ~Below(cell, action_policy[cell], other, value_func, last.discount)

-----------------------------------------------------------------------------
(* src/policy.py: policy_evalution, policy_iteration and value_iteration.  *)
(* frame holds the locals of the call in progress and the value functions  *)
(* returned so far; value_func is the array the caller passes in, which the *)
(* callee copies and never writes.                                          *)

MaxSolveN == 3      \* the grids solved are n x n for n in 2..MaxSolveN
MaxSolveHoles == 2  \* and have at most this many holes
MaxSweeps == 7      \* sweeps and rounds of one call are counted up to this

\* lines 62-63 without the assignment to value_func[(i, j)]: delta alone
store_delta_only(acc, cell, new) ==
    CHOOSE out \in {[value_func |-> acc.value_func,
                     delta |-> max2(acc.delta, abs_diff(acc.value_func[cell], v))] :
                        v \in {new}} : TRUE

\* lines 62-63 and 151-152: the array and delta once new is stored in cell
store(acc, cell, new) ==
    CHOOSE out \in {[value_func |-> [acc.value_func EXCEPT ![cell] = v],
                     delta |-> max2(acc.delta, abs_diff(acc.value_func[cell], v))] :
                        v \in {new}} : TRUE

\* lines 59-63 for the k-th cell: acc is the array and delta so far
evaluate_cell(n, grid, policy, disc, acc, k) ==
    CHOOSE out \in {store(acc, cell, lookahead(n, grid, acc.value_func, disc, cell,
                                               policy[cell])) :
                        cell \in {ndindex(n, k)}} : TRUE

\* the loop of lines 58-63 from the k-th cell on
RECURSIVE evaluation_sweep(_, _, _, _, _, _)
evaluation_sweep(n, grid, policy, disc, acc, k) ==
    IF k > n * n THEN acc
    ELSE CHOOSE swept \in
            {evaluation_sweep(n, grid, policy, disc, next, k + 1) :
                next \in {evaluate_cell(n, grid, policy, disc, a, k) : a \in {acc}}} :
            TRUE

\* action_value[0] in its place
max_value_first(values) == values[1]

\* max(action_value) of line 151
max_value(values) == CHOOSE m \in {v[max_key_scan(v, 2, 1)] : v \in {values}} : TRUE

\* lines 146-152 for the k-th cell
backup_cell(n, grid, disc, acc, k) ==
    CHOOSE out \in {store(acc, cell,
                          max_value(action_value(n, grid, acc.value_func, disc, cell))) :
                        cell \in {ndindex(n, k)}} : TRUE

\* the loop of lines 145-152 from the k-th cell on
RECURSIVE value_sweep(_, _, _, _, _)
value_sweep(n, grid, disc, acc, k) ==
    IF k > n * n THEN acc
    ELSE CHOOSE swept \in
            {value_sweep(n, grid, disc, next, k + 1) :
                next \in {backup_cell(n, grid, disc, a, k) : a \in {acc}}} :
            TRUE

\* a count of sweeps or rounds, one more
counted(count) == IF count < MaxSweeps THEN count + 1 ELSE count

\* the assertions of lines 112-114 and 138-140 hold
arguments_ok(n, values, disc, threshold) ==
    /\ DOMAIN values = Cells(n)
    /\ ~less(disc, real(0)) /\ ~less(real(1), disc)
    /\ less(real(0), threshold)

\* the locals of a call that has passed its assertions
solver_frame(op, pc, disc, threshold, values) ==
    [pc |-> pc, op |-> op, discount |-> disc, threshold |-> threshold,
     value_func |-> values, sweeps |-> 0, rounds |-> 0, results |-> frame.results]

\* what the caller keeps of a call that returned
solver_result ==
    [op |-> frame.op, discount |-> frame.discount, threshold |-> frame.threshold,
     sweeps |-> frame.sweeps, rounds |-> frame.rounds]

Called(op) == \E k \in 1..Len(frame.results) : frame.results[k].op = op

\* env.create_hole(hole_pos) before solving, at most max_holes times with
\* success
solve_create_hole(max_holes) ==
    /\ frame.pc = "idle"
    /\ last.op \in {"init", "create_hole"}
    /\ \E hole_pos \in Cells(env.n) :
          LET r == create_hole(env.n, env.grid, hole_pos) IN
          /\ r.result.raised \/ Cardinality(Holes(env.grid)) < max_holes
          /\ env' = [env EXCEPT !.grid = r.grid]
          /\ last' = [op |-> "create_hole", hole_pos |-> hole_pos,
                      before |-> env.grid, result |-> r.result]
    /\ UNCHANGED <<action_policy, value_func, q_function, frame, rewards, updates>>

\* policy.policy_iteration(value_func, env, discount, threshold) is called,
\* <<discount, threshold>> in args
policy_iteration_call(args) ==
    /\ frame.pc = "idle"
    /\ ~Called("policy_iteration")
    /\ \E arg \in args :
          IF arguments_ok(env.n, value_func, arg[1], arg[2])
          THEN /\ frame' = solver_frame("policy_iteration", "policy_evalution",
                                        arg[1], arg[2], value_func)
               /\ last' = [op |-> "policy_iteration", discount |-> arg[1],
                           threshold |-> arg[2]]
          ELSE /\ frame' = frame
               /\ last' = [op |-> "policy_iteration", discount |-> arg[1],
                           threshold |-> arg[2], result |-> Raise]
    /\ UNCHANGED <<env, action_policy, value_func, q_function, rewards, updates>>

\* one pass of the while loop of policy_evalution, lines 57-65
EvaluationSweep ==
    /\ frame.pc = "policy_evalution"
    /\ \E swept \in {evaluation_sweep(env.n, env.grid, action_policy, frame.discount,
                                      [value_func |-> frame.value_func,
                                       delta |-> real(0)], 1)} :
          /\ frame' = [frame EXCEPT
                          !.value_func = swept.value_func,
                          !.sweeps = counted(@),
                          !.pc = IF less(swept.delta, frame.threshold)
                                 THEN "policy_improvement" ELSE @]
          /\ last' = [op |-> "evaluation_sweep", delta |-> swept.delta]
    /\ UNCHANGED <<env, action_policy, value_func, q_function, rewards, updates>>

\* the same in a call that is followed for at most MaxSweeps sweeps
BoundedEvaluationSweep ==
    /\ frame.pc = "policy_evalution"
    /\ frame.sweeps < MaxSweeps
    /\ EvaluationSweep

\* lines 118-119: policy_improvement, and the return when it reports no change
Improvement ==
    /\ frame.pc = "policy_improvement"
    /\ \E r \in {policy_improvement(env.n, env.grid, action_policy, frame.value_func,
                                    frame.discount)} :
          /\ action_policy' = r.action_policy
          /\ last' = [op |-> "policy_improvement", discount |-> frame.discount,
                      result |-> r.result]
          /\ frame' = IF r.result.value
                      THEN [pc |-> "idle",
                            results |-> Append(frame.results,
                                [solver_result EXCEPT !.rounds = counted(@)]
                                   @@ [value_func |-> frame.value_func])]
                      ELSE [frame EXCEPT !.rounds = counted(@),
                                         !.pc = "policy_evalution"]
    /\ UNCHANGED <<env, value_func, q_function, rewards, updates>>

-----------------------------------------------------------------------------
(* Specification SpecPI: policy_iteration on any value function, with      *)
(* discounts below 1 and the arguments its assertions reject.  The loops   *)
(* run as long as the code lets them: a step that is enabled is taken.     *)

\* the <<discount, threshold>> arguments tried: discounts 0, 1/2 and the
\* rejected 3/2, threshold 1/2 and the rejected 0
IterationArgs == {<<0, 1>>, <<1, 2>>, <<3, 2>>} \X {<<0, 1>>, <<1, 2>>}

\* before the script of src/train_and_test_policy.py has built anything
InitPI ==
    /\ env = <<>>
    /\ action_policy = <<>>
    /\ value_func = <<>>
    /\ q_function = <<>>
    /\ frame = [pc |-> "start", results |-> <<>>]
    /\ rewards = <<>>
    /\ updates = 0
    /\ last = NoCall

\* Environment(n, goal_pos), Policy(n) and the caller's value function, with
\* n in sizes
construct(sizes, policy_tables, value_funcs) ==
    /\ frame.pc = "start"
    /\ \E n \in sizes : \E goal_pos \in Cells(n) :
          /\ env' = [n |-> n, grid |-> new_grid(n, goal_pos), goal_pos |-> goal_pos]
          /\ action_policy' \in policy_tables[n]
          /\ value_func' \in value_funcs[n]
    /\ frame' = [frame EXCEPT !.pc = "idle"]
    /\ UNCHANGED <<q_function, rewards, updates, last>>

PIConstruct ==
    construct(2..MaxN, [n \in 2..MaxN |-> PolicyTables(n)],
              [n \in 2..MaxN |-> ValueFuncs(n)])

PICreateHole == solve_create_hole(MaxHoles)

PolicyIterationCall == policy_iteration_call(IterationArgs)

NextPI ==
    \/ PIConstruct
    \/ PICreateHole
    \/ PolicyIterationCall
    \/ EvaluationSweep
    \/ Improvement

\* the call in progress executes its next statement
SolverStep == EvaluationSweep \/ Improvement

\* the interpreter goes on executing a call: weak fairness of SolverStep
SpecPI == InitPI /\ [][NextPI]_vars /\ WF_vars(SolverStep)

-----------------------------------------------------------------------------
(* C11: termination of policy_iteration *)

Evaluating == frame.pc = "policy_evalution"
Returned(op) == frame.pc = "idle" /\ Called(op)
PolicyIterationReturned == Returned("policy_iteration")

\* threshold > 0 and 0 <= discount < 1 in the call in progress
TerminationArgs ==
    /\ frame.threshold[1] > 0
    /\ frame.discount[1] >= 0
    /\ frame.discount[1] < frame.discount[2]

\* C11: with threshold > 0 and 0 <= discount < 1, policy_iteration terminates
\* for every grid, initial policy table and initial value function: every
\* policy_evalution loop reaches a sweep with delta < threshold, and after
\* finitely many rounds an improvement pass reports no change and the value
\* function is returned.  (The call returns from the improvement pass only,
\* so a policy_evalution loop that leads to the return has ended.)
PolicyIterationTerminates ==
    (Evaluating /\ TerminationArgs) ~> PolicyIterationReturned

\* a call with discount 1/2 returned after three rounds of evaluation and
\* improvement and more sweeps than rounds
PolicyIterationTerminatesWitness ==
    /\ Returned("policy_iteration")
    /\ \E k \in 1..Len(frame.results) :
          /\ frame.results[k].discount = <<1, 2>>
          /\ frame.results[k].rounds >= 3
          /\ frame.results[k].sweeps > frame.results[k].rounds

-----------------------------------------------------------------------------
(* Specification SpecSolve: the script of src/train_and_test_policy.py     *)
(* solves one grid from the all-zero value function of its line 23, by     *)
(* policy_iteration and by value_iteration.  A call is followed for at     *)
(* most MaxSweeps sweeps.                                                  *)

\* policy.value_iteration(value_func, env, discount, threshold) is called,
\* <<discount, threshold>> in args
value_iteration_call(args) ==
    /\ frame.pc = "idle"
    /\ ~Called("value_iteration")
    /\ \E arg \in args :
          IF arguments_ok(env.n, value_func, arg[1], arg[2])
          THEN /\ frame' = solver_frame("value_iteration", "value_iteration",
                                        arg[1], arg[2], value_func)
               /\ last' = [op |-> "value_iteration", discount |-> arg[1],
                           threshold |-> arg[2]]
          ELSE /\ frame' = frame
               /\ last' = [op |-> "value_iteration", discount |-> arg[1],
                           threshold |-> arg[2], result |-> Raise]
    /\ UNCHANGED <<env, action_policy, value_func, q_function, rewards, updates>>

\* lines 155-161: the table value_iteration leaves in the Policy
extract_policy(n, grid, policy, values, disc) ==
    improvement_sweep(n, grid, values, disc,
                      [action_policy |-> policy, policy_stable |-> TRUE], 1).action_policy

\* one pass of the while loop of value_iteration, lines 144-154, and after
\* the break lines 155-162
ValueSweep ==
    /\ frame.pc = "value_iteration"
    /\ frame.sweeps < MaxSweeps
    /\ \E swept \in {value_sweep(env.n, env.grid, frame.discount,
                                 [value_func |-> frame.value_func,
                                  delta |-> real(0)], 1)} :
          /\ last' = [op |-> "value_sweep", delta |-> swept.delta]
          /\ IF less(swept.delta, frame.threshold)
             THEN /\ action_policy' = extract_policy(env.n, env.grid, action_policy,
                                                     swept.value_func, frame.discount)
                  /\ frame' = [pc |-> "idle",
                               results |-> Append(frame.results,
                                   [solver_result EXCEPT !.sweeps = counted(@)]
                                      @@ [value_func |-> swept.value_func])]
             ELSE /\ action_policy' = action_policy
                  /\ frame' = [frame EXCEPT !.value_func = swept.value_func,
                                            !.sweeps = counted(@)]
    /\ UNCHANGED <<env, value_func, q_function, rewards, updates>>

\* the all-zero array of line 23
zeros(n) == [c \in Cells(n) |-> real(0)]

\* the <<discount, threshold>> arguments of both solvers: discounts 1/2 and
\* 3/4 with threshold 1/2
SolveArgs == {<<1, 2>>, <<3, 4>>} \X {<<1, 2>>}

\* and of value_iteration alone: discount 0.9 with threshold 0.01
FineArgs == {<<<<9, 10>>, <<1, 100>>>>}

SolveConstruct ==
    construct(2..MaxSolveN, [n \in 2..MaxSolveN |-> PolicyTables(n)],
              [n \in 2..MaxSolveN |-> {zeros(n)}])

SolveCreateHole == solve_create_hole(MaxSolveHoles)

SolvePolicyIteration == policy_iteration_call(SolveArgs)

SolveValueIteration == value_iteration_call(SolveArgs \cup FineArgs)

NextSolve ==
    \/ SolveConstruct
    \/ SolveCreateHole
    \/ SolvePolicyIteration
    \/ BoundedEvaluationSweep
    \/ Improvement
    \/ SolveValueIteration
    \/ ValueSweep

SpecSolve == InitPI /\ [][NextSolve]_vars

-----------------------------------------------------------------------------
(* C12: policy_iteration against value_iteration *)

\* results k and m are policy_iteration's and value_iteration's, returned for
\* the same discount and threshold (the grid and the all-zero initial value
\* function are the same for all calls of a behaviour)
SamePair(k, m) ==
    /\ frame.results[k].op = "policy_iteration"
    /\ frame.results[m].op = "value_iteration"
    /\ frame.results[k].discount = frame.results[m].discount
    /\ frame.results[k].threshold = frame.results[m].threshold

\* the distance of the two results at a cell
Gap(k, m, cell) ==
    abs_diff(frame.results[k].value_func[cell], frame.results[m].value_func[cell])

\* C12 as stated: the value functions the two solvers return for the same
\* grid, discount and threshold, from the all-zero value function, differ at
\* every state by at most the threshold, whatever the initial policy table
SolversAgreeWithinThreshold ==
    frame.pc = "idle" =>
       \A k, m \in 1..Len(frame.results) :
          SamePair(k, m) =>
             \A cell \in Cells(env.n) :
                ~less(frame.results[k].threshold, Gap(k, m, cell))

\* C12, amended: they differ at every state by at most
\* 2 * discount * threshold / (1 - discount), for a discount below 1
SolversAgreeWithinBound ==
    frame.pc = "idle" =>
       \A k, m \in 1..Len(frame.results) :
          (SamePair(k, m) /\ less(frame.results[k].discount, real(1))) =>
             \A cell \in Cells(env.n) :
                ~less(mul(real(2), mul(frame.results[k].discount,
                                       frame.results[k].threshold)),
                      mul(add(real(1), mul(real(-1), frame.results[k].discount)),
                          Gap(k, m, cell)))

\* both solvers returned for the same arguments and their results are more
\* than the threshold apart at some cell
SolversAgreeWithinBoundWitness ==
    /\ frame.pc = "idle"
    /\ \E k, m \in 1..Len(frame.results) :
          /\ SamePair(k, m)
          /\ less(frame.results[k].discount, real(1))
          /\ \E cell \in Cells(env.n) :
                less(frame.results[k].threshold, Gap(k, m, cell))

-----------------------------------------------------------------------------
(* C13: value_iteration on the 3x3 grid with goal (2,2) and hole (1,1) *)

\* the environment of the claim
HoleInTheMiddle ==
    /\ frame.pc # "start"
    /\ env.n = 3
    /\ env.goal_pos = <<2, 2>>
    /\ Holes(env.grid) = {<<1, 1>>}

\* discount 0.9 and threshold 0.01 in a record of a call
Fine(call) == call.discount = <<9, 10>> /\ call.threshold = <<1, 100>>

\* (0,0) is below (1,2) and is a minimum over the non-terminal cells
StartIsFarthest(values) ==
    /\ less(values[<<0, 0>>], values[<<1, 2>>])
    /\ \A cell \in Cells(3) :
          env.grid[cell] = FIELD => ~less(values[cell], values[<<0, 0>>])

\* C13: on the 3x3 grid with goal (2,2) and the single hole (1,1),
\* value_iteration from the all-zero value function with discount 0.9 and
\* threshold 0.01 terminates, here within five sweeps, and the value it
\* returns at (0,0) is strictly less than the value at (1,2) and is the
\* minimum, possibly tied, over all non-terminal cells
StartCornerIsLowest ==
    HoleInTheMiddle =>
       /\ (frame.pc = "value_iteration" /\ Fine(frame)) => frame.sweeps < 5
       /\ frame.pc = "idle" =>
             \A k \in 1..Len(frame.results) :
                (frame.results[k].op = "value_iteration" /\ Fine(frame.results[k])) =>
                   StartIsFarthest(frame.results[k].value_func)

\* value_iteration returned on that grid with those arguments: 0.729 at
\* (0,0), 1 at (1,2) and 0.81 at (0,1)
StartCornerIsLowestWitness ==
    /\ HoleInTheMiddle
    /\ frame.pc = "idle"
    /\ \E k \in 1..Len(frame.results) :
          /\ frame.results[k].op = "value_iteration"
          /\ Fine(frame.results[k])
          /\ frame.results[k].value_func[<<0, 0>>] = <<729, 1000>>
          /\ frame.results[k].value_func[<<1, 2>>] = <<1, 1>>
          /\ frame.results[k].value_func[<<0, 1>>] = <<81, 100>>

=============================================================================
